---------------------------- MODULE Spec2Model ----------------------------
(***************************************************************************)
(* A model of oneconfig: the Configuration tree (a dict subclass) with its *)
(* path addressing (__call__ / set), the ExtendedArgument resolver built   *)
(* on the extended Formatter, the YAML loader / dumper bindings, and       *)
(* list_to_str.                                                            *)
(*                                                                         *)
(* Python values are records tagged by "kind".  A Python str is a sequence *)
(* of one-character strings, so that indexing, concatenation, the path     *)
(* regular expression and the format-string parser work on characters.     *)
(***************************************************************************)
EXTENDS Integers, Sequences, FiniteSets, TLC

VARIABLES config, source_filename, file, last, nsets

vars == <<config, source_filename, file, last, nsets>>

\* ------------------------------------------------------------------ bounds

\* How many Configuration.set calls one behaviour makes.
MaxSets == 1

\* The longest list handed to list_to_str.
MaxNames == 3

\* ------------------------------------------------------------ Python values

PyInt(n) == [kind |-> "int", n |-> n]

PyStr(s) == [kind |-> "str", s |-> s]

PyList(es) == [kind |-> "list", elems |-> es]

\* A dict keeps insertion order: a sequence of items [k |-> key, v |-> value].
PyDict(items) == [kind |-> "dict", items |-> items]

Item(k, v) == [k |-> k, v |-> v]

Timestamp(t) == [kind |-> "Timestamp", t |-> t]

Timedelta(t) == [kind |-> "Timedelta", t |-> t]

NoneV == [kind |-> "None"]

\* The sentinel default of Configuration.__call__.
NotImplementedV == [kind |-> "NotImplemented"]

\* ExtendedArgument.__init__
ExtendedArgument(value_pattern) ==
    [kind |-> "ExtendedArgument", value_pattern |-> value_pattern]

\* Outcomes of a call: a returned value or a raised exception.
Return(v) == [raised |-> "none", value |-> v]

Raise(e) == [raised |-> e, value |-> NoneV]

\* ------------------------------------------------------------- characters

Digits == <<"0", "1", "2", "3", "4", "5", "6", "7", "8", "9">>

IsDigit(c) == \E d \in 1..10 : Digits[d] = c

DigitValue(c) == (CHOOSE d \in 1..10 : Digits[d] = c) - 1

IsIdentStart(c) ==
    c \in {"a", "b", "c", "d", "e", "f", "g", "h", "i", "j", "k", "l", "m",
           "n", "o", "p", "q", "r", "s", "t", "u", "v", "w", "x", "y", "z",
           "A", "B", "C", "D", "E", "F", "G", "H", "I", "J", "K", "L", "M",
           "N", "O", "P", "Q", "R", "S", "T", "U", "V", "W", "X", "Y", "Z",
           "_"}

IsIdentChar(c) == IsIdentStart(c) \/ IsDigit(c)

RECURSIVE DigitsToNat(_)
DigitsToNat(ds) ==
    IF ds = <<>> THEN 0
    ELSE 10 * DigitsToNat(SubSeq(ds, 1, Len(ds) - 1)) + DigitValue(ds[Len(ds)])

\* int(): a decimal literal with an optional leading minus sign.
ParseInt(s) ==
    IF s # <<>> /\ s[1] = "-" THEN 0 - DigitsToNat(Tail(s)) ELSE DigitsToNat(s)

RECURSIVE NatToStr(_)
NatToStr(n) ==
    IF n < 10 THEN <<Digits[n + 1]>>
    ELSE NatToStr(n \div 10) \o <<Digits[(n % 10) + 1]>>

IntToStr(n) == IF n < 0 THEN <<"-">> \o NatToStr(0 - n) ELSE NatToStr(n)

\* -------------------------------------------------- item access (obj[key])

RECURSIVE FindKey(_, _, _)
FindKey(items, k, i) ==
    IF i > Len(items) THEN 0
    ELSE IF items[i].k = k THEN i
    ELSE FindKey(items, k, i + 1)

\* Position of key k in a dict's items, 0 when absent.
KeyPos(d, k) == FindKey(d.items, k, 1)

\* A Python index normalised to 1..n, 0 when out of range.
ListPos(n, i) ==
    IF i >= 0 /\ i < n THEN i + 1
    ELSE IF i < 0 /\ i + n >= 0 THEN i + n + 1
    ELSE 0

\* node[key]: dict lookup, list and str indexing; anything else is not
\* subscriptable.
GetItem(node, key) ==
    CASE node.kind = "dict" ->
            IF KeyPos(node, key) = 0 THEN Raise("KeyError")
            ELSE Return(node.items[KeyPos(node, key)].v)
      [] node.kind = "list" ->
            IF key.kind # "int" THEN Raise("TypeError")
            ELSE IF ListPos(Len(node.elems), key.n) = 0 THEN Raise("IndexError")
            ELSE Return(node.elems[ListPos(Len(node.elems), key.n)])
      [] node.kind = "str" ->
            IF key.kind # "int" THEN Raise("TypeError")
            ELSE IF ListPos(Len(node.s), key.n) = 0 THEN Raise("IndexError")
            ELSE Return(PyStr(<<node.s[ListPos(Len(node.s), key.n)]>>))
      [] OTHER -> Raise("TypeError")

\* node[key] = value: the outcome carries the updated node.
SetItem(node, key, value) ==
    CASE node.kind = "dict" ->
            IF KeyPos(node, key) = 0
            THEN Return(PyDict(Append(node.items, Item(key, value))))
            ELSE Return(PyDict([node.items EXCEPT ![KeyPos(node, key)].v = value]))
      [] node.kind = "list" ->
            IF key.kind # "int" THEN Raise("TypeError")
            ELSE IF ListPos(Len(node.elems), key.n) = 0 THEN Raise("IndexError")
            ELSE Return(PyList([node.elems EXCEPT
                                 ![ListPos(Len(node.elems), key.n)] = value]))
      [] OTHER -> Raise("TypeError")

\* ------------------------------------------------------ path expressions

\* End of the greedy run of identifier characters that starts at i.
RECURSIVE IdentEnd(_, _)
IdentEnd(path, i) ==
    IF i < Len(path) /\ IsIdentChar(path[i + 1]) THEN IdentEnd(path, i + 1)
    ELSE i

\* End of the greedy run of digits that starts at i (i - 1 when none).
RECURSIVE DigitsEnd(_, _)
DigitsEnd(path, i) ==
    IF i <= Len(path) /\ IsDigit(path[i]) THEN DigitsEnd(path, i + 1)
    ELSE i - 1

\* The second alternative of the path pattern at position i,
\* \[(-?[0-9]+)\][.|$] : the position of its last character, 0 on no match.
\* Inside the character class "$" is a literal dollar sign.
IndexMatchEnd(path, i) ==
    LET d == IF i < Len(path) /\ path[i + 1] = "-" THEN i + 2 ELSE i + 1
        e == DigitsEnd(path, d)
    IN  IF /\ path[i] = "["
           /\ e >= d
           /\ e + 2 <= Len(path)
           /\ path[e + 1] = "]"
           /\ path[e + 2] \in {".", "|", "$"}
        THEN e + 2
        ELSE 0

IndexMatchDigits(path, i) == SubSeq(path, i + 1, IndexMatchEnd(path, i) - 2)

\* re.findall(r'([A-Z_][A-Z_0-9]*)|\[(-?[0-9]+)\][.|$]', path, re.IGNORECASE)
\* scanning from position i: the matches <<group 1, group 2>> left to right.
RECURSIVE FindAll(_, _)
FindAll(path, i) ==
    IF i > Len(path) THEN <<>>
    ELSE IF IsIdentStart(path[i])
    THEN <<  <<SubSeq(path, i, IdentEnd(path, i)), <<>>>>  >>
         \o FindAll(path, IdentEnd(path, i) + 1)
    ELSE IF IndexMatchEnd(path, i) # 0
    THEN <<  << <<>>, IndexMatchDigits(path, i)>>  >>
         \o FindAll(path, IndexMatchEnd(path, i) + 1)
    ELSE FindAll(path, i + 1)

\* match[0] or int(match[1])
KeyOrIndex(match) ==
    IF match[1] # <<>> THEN PyStr(match[1]) ELSE PyInt(ParseInt(match[2]))

\* The loop of Configuration.__call__ from match i on.
RECURSIVE CallWalk(_, _, _, _)
CallWalk(node, matches, i, default) ==
    IF i > Len(matches) THEN Return(node)
    ELSE LET r == GetItem(node, KeyOrIndex(matches[i]))
         IN  IF r.raised = "none" THEN CallWalk(r.value, matches, i + 1, default)
             ELSE IF r.raised \in {"KeyError", "IndexError"}
             THEN IF default = NotImplementedV THEN Raise("ValueError")
                  ELSE Return(default)
             ELSE r

\* Configuration.__call__(path, default)
Call(self, path, default) == CallWalk(self, FindAll(path, 1), 1, default)

\* The outcome of a call that mutates a subtree in place: the exception it
\* raised ("none" when it returned) and the subtree as the call left it.
Mutated(raised, node) == [raised |-> raised, value |-> node]

\* The mutation of node that the outcome r of a SetItem on it describes.
Assigned(node, r) ==
    IF r.raised = "none" THEN Mutated("none", r.value) ELSE Mutated(r.raised, node)

\* node[key] = value as an in-place mutation: node is untouched on an error.
Assign(node, key, value) == Assigned(node, SetItem(node, key, value))

\* Configuration.set from match i on, at node.  The child a step descends
\* into is mutated in place, so node holds the child as the walk left it.
RECURSIVE SetWalk(_, _, _, _)
SetWalk(node, matches, i, value) ==
    LET key == KeyOrIndex(matches[i])
    IN  IF i = Len(matches) THEN Assign(node, key, value)
        ELSE LET r == GetItem(node, key)
             IN  IF r.raised = "none"
                 THEN LET below == SetWalk(r.value, matches, i + 1, value)
                      IN  IF node.kind = "str" THEN Mutated(below.raised, node)
                          ELSE Mutated(below.raised,
                                       SetItem(node, key, below.value).value)
                 ELSE IF r.raised \in {"KeyError", "IndexError"}
                 THEN LET made == Assign(node, key, PyDict(<<>>))
                      IN  IF made.raised # "none" THEN made
                          ELSE LET below == SetWalk(PyDict(<<>>), matches, i + 1, value)
                               IN  Mutated(below.raised,
                                           SetItem(node, key, below.value).value)
                 ELSE Mutated(r.raised, node)

\* A set that assigns at the first segment and never walks the path.
ConfigSet_Shallow(self, path, value) ==
    IF FindAll(path, 1) = <<>> THEN Mutated("IndexError", self)
    ELSE Assign(self, KeyOrIndex(FindAll(path, 1)[1]), value)

\* Configuration.set(path, value): matches[-1] of no match is an IndexError.
ConfigSet(self, path, value) ==
    IF FindAll(path, 1) = <<>> THEN Mutated("IndexError", self)
    ELSE SetWalk(self, FindAll(path, 1), 1, value)

\* ----------------------------------------------------------- conversions

LowerCase == <<"a", "b", "c", "d", "e", "f", "g", "h", "i", "j", "k", "l", "m",
               "n", "o", "p", "q", "r", "s", "t", "u", "v", "w", "x", "y", "z">>

UpperCase == <<"A", "B", "C", "D", "E", "F", "G", "H", "I", "J", "K", "L", "M",
               "N", "O", "P", "Q", "R", "S", "T", "U", "V", "W", "X", "Y", "Z">>

IsLower(c) == \E i \in 1..26 : LowerCase[i] = c

IsUpper(c) == \E i \in 1..26 : UpperCase[i] = c

ToUpper(c) ==
    IF IsLower(c) THEN UpperCase[CHOOSE i \in 1..26 : LowerCase[i] = c] ELSE c

ToLower(c) ==
    IF IsUpper(c) THEN LowerCase[CHOOSE i \in 1..26 : UpperCase[i] = c] ELSE c

\* str.upper()
Upper(s) == [i \in 1..Len(s) |-> ToUpper(s[i])]

\* str.lower()
Lower(s) == [i \in 1..Len(s) |-> ToLower(s[i])]

\* str.title(): a cased character is upper case after an uncased one and
\* lower case after a cased one.
Title(s) ==
    [i \in 1..Len(s) |->
        IF i > 1 /\ (IsLower(s[i - 1]) \/ IsUpper(s[i - 1]))
        THEN ToLower(s[i]) ELSE ToUpper(s[i])]

\* sep.join(parts)
RECURSIVE Join(_, _)
Join(sep, parts) ==
    IF parts = <<>> THEN <<>>
    ELSE IF Len(parts) = 1 THEN parts[1]
    ELSE parts[1] \o sep \o Join(sep, Tail(parts))

\* repr(): containers show the repr of what they hold.
RECURSIVE Repr(_)
Repr(v) ==
    CASE v.kind = "int" -> IntToStr(v.n)
      [] v.kind = "str" -> <<"'">> \o v.s \o <<"'">>
      [] v.kind = "None" -> <<"N", "o", "n", "e">>
      [] v.kind = "list" ->
            <<"[">> \o Join(<<",", " ">>, [i \in 1..Len(v.elems) |-> Repr(v.elems[i])])
                    \o <<"]">>
      [] v.kind = "dict" ->
            <<"{">> \o Join(<<",", " ">>,
                            [i \in 1..Len(v.items) |->
                                Repr(v.items[i].k) \o <<":", " ">> \o Repr(v.items[i].v)])
                    \o <<"}">>
      [] v.kind = "Timestamp" ->
            <<"T", "i", "m", "e", "s", "t", "a", "m", "p", "(", "'">>
            \o IntToStr(v.t) \o <<"'", ")">>
      [] v.kind = "Timedelta" ->
            <<"T", "i", "m", "e", "d", "e", "l", "t", "a", "(", "'">>
            \o IntToStr(v.t) \o <<"'", ")">>
      [] v.kind = "ExtendedArgument" ->
            <<"E", "x", "t", "e", "n", "d", "e", "d", "A", "r", "g", "u", "m", "e",
              "n", "t", "(", "'">> \o v.value_pattern \o <<"'", ")">>

\* ------------------------------------------------------------- formatter

\* First position at or after i whose character is in cs, Len(s) + 1 if none.
RECURSIVE Find(_, _, _)
Find(s, cs, i) ==
    IF i > Len(s) \/ s[i] \in cs THEN i ELSE Find(s, cs, i + 1)

IsAllDigits(s) == s # <<>> /\ \A i \in 1..Len(s) : IsDigit(s[i])

\* A key written in a replacement field: an int when all digits, else a str.
FieldKey(s) == IF IsAllDigits(s) THEN PyInt(DigitsToNat(s)) ELSE PyStr(s)

\* Formatter.get_value(key, args, kwargs) with from_containers off and no
\* positional arguments: an integer key indexes the empty args, a name looks
\* up kwargs.
Formatter_get_value(key, kwargs) ==
    IF key.kind = "int" THEN Raise("IndexError")
    ELSE GetItem(kwargs, key)

\* The loop of Formatter.get_field over the rest of the field name, from
\* position i: ".name" and "[key]" both do obj[i] (dot_item_access is set).
RECURSIVE FieldRest(_, _, _)
FieldRest(obj, name, i) ==
    IF i > Len(name) THEN Return(obj)
    ELSE IF name[i] = "."
    THEN LET e == Find(name, {".", "["}, i + 1)
         IN  IF e = i + 1 THEN Raise("ValueError")
             ELSE LET r == GetItem(obj, PyStr(SubSeq(name, i + 1, e - 1)))
                  IN  IF r.raised # "none" THEN r ELSE FieldRest(r.value, name, e)
    ELSE LET e == Find(name, {"]"}, i + 1)
         IN  IF \/ e > Len(name)
                \/ e = i + 1
                \/ (e < Len(name) /\ name[e + 1] \notin {".", "["})
             THEN Raise("ValueError")
             ELSE LET r == GetItem(obj, FieldKey(SubSeq(name, i + 1, e - 1)))
                  IN  IF r.raised # "none" THEN r ELSE FieldRest(r.value, name, e + 1)

\* Formatter.get_field(field_name, args, kwargs): an empty first part is the
\* automatic index 0.
Formatter_get_field(field_name, kwargs) ==
    LET e == Find(field_name, {".", "["}, 1)
        first == IF e = 1 THEN PyInt(0) ELSE FieldKey(SubSeq(field_name, 1, e - 1))
        obj == Formatter_get_value(first, kwargs)
    IN  IF obj.raised # "none" THEN obj ELSE FieldRest(obj.value, field_name, e)

RECURSIVE VFormat(_, _, _)

\* ExtendedArgument.__get__(root=root): a KeyError or IndexError of the
\* formatter becomes the KeyError "could not be resolved".
\* The substitutions are passed as keyword arguments, which must be named
\* by strings.
Unresolved(r) ==
    IF r.raised \in {"KeyError", "IndexError"} THEN Raise("KeyError") ELSE r

ExtendedArgument_get(self, substitutions) ==
    IF \E i \in 1..Len(substitutions.items) : substitutions.items[i].k.kind # "str"
    THEN Raise("TypeError")
    ELSE Unresolved(VFormat(self.value_pattern, 1, substitutions))

\* A __str__ that returns the template as it is written.
ExtendedArgument_str_Raw(self) == Return(self.value_pattern)

\* ExtendedArgument.__str__: __get__() with neither root nor instance.
ExtendedArgument_str(self) == ExtendedArgument_get(self, PyDict(<<>>))

\* str(value), the outcome a str of characters.
ToStr(v) ==
    CASE v.kind = "str" -> Return(v.s)
      [] v.kind = "ExtendedArgument" -> ExtendedArgument_str(v)
      [] v.kind \in {"Timestamp", "Timedelta"} -> Return(IntToStr(v.t))
      [] OTHER -> Return(Repr(v))

\* pattern.format(n=n) of list_to_str.
PatternFormat(pattern, n) ==
    VFormat(pattern, 1, PyDict(<<Item(PyStr(<<"n">>), n)>>))

\* The first exception among outcomes evaluated left to right, else their
\* values.
RECURSIVE Gather(_)
Gather(rs) ==
    IF rs = <<>> THEN Return(<<>>)
    ELSE IF rs[1].raised # "none" THEN rs[1]
    ELSE IF Gather(Tail(rs)).raised # "none" THEN Gather(Tail(rs))
    ELSE Return(<<rs[1].value>> \o Gather(Tail(rs)).value)

\* The list_to_str result for the formatted elements r.
JoinNames(r, sep, last_sep) ==
    IF r.raised # "none" THEN r
    ELSE IF r.value = <<>> THEN Raise("IndexError")
    ELSE Return(Join(sep, SubSeq(r.value, 1, Len(r.value) - 1))
                \o last_sep \o r.value[Len(r.value)])

\* list_to_str(names, pattern, sep, last_sep) on the elements of names;
\* last_sep is NoneV when not given.
list_to_str(names, pattern, sep, last_sep) ==
    JoinNames(Gather([i \in 1..Len(names) |-> PatternFormat(pattern, names[i])]),
              sep,
              IF last_sep = NoneV THEN sep ELSE last_sep.s)

\* The elements of a value that takes names[:-1] and names[-1].
Elements(v) ==
    IF v.kind = "list" THEN v.elems ELSE [i \in 1..Len(v.s) |-> PyStr(<<v.s[i]>>)]

\* Formatter._convert_field_d
Formatter_convert_field_d(value) ==
    IF value.kind \notin {"list", "str"} THEN Raise("TypeError")
    ELSE list_to_str(Elements(value), <<"\"", "{", "n", "}", "\"">>,
                     <<",", " ">>, NoneV)

\* Wrap the characters of an outcome into a str value.
AsStr(r) == IF r.raised = "none" THEN Return(PyStr(r.value)) ELSE r

\* The str method of a conversion applied to the outcome r of str(value).
StrMethod(r, conversion) ==
    CASE r.raised # "none" -> r
      [] conversion = <<"u">> -> Return(PyStr(Upper(r.value)))
      [] conversion = <<"l">> -> Return(PyStr(Lower(r.value)))
      [] conversion = <<"t">> -> Return(PyStr(Title(r.value)))
      [] OTHER -> Return(PyStr(r.value))

\* Formatter.convert_field(value, conversion): conversion is <<>> when the
\* field has none; "s", "r" and "a" are the conversions of the base class.
Formatter_convert_field(value, conversion) ==
    CASE conversion = <<>> -> Return(value)
      [] conversion \in {<<"u">>, <<"l">>, <<"t">>, <<"s">>} ->
            StrMethod(ToStr(value), conversion)
      [] conversion = <<"d">> -> AsStr(Formatter_convert_field_d(value))
      [] conversion \in {<<"r">>, <<"a">>} -> Return(PyStr(Repr(value)))
      [] OTHER -> Raise("ValueError")

\* format_field(value, '') of the converted value c: str(value).
Formatter_format_field(c) == IF c.raised # "none" THEN c ELSE ToStr(c.value)

\* convert_field and format_field of the object obj that get_field found.
ConvertAndFormat(obj, conversion) ==
    IF obj.raised # "none" THEN obj
    ELSE Formatter_format_field(Formatter_convert_field(obj.value, conversion))

\* One replacement field "name" or "name!c": get_field, convert_field,
\* format_field with an empty format spec.
FormatField(field, kwargs) ==
    LET b == Find(field, {"!"}, 1)
        conversion == SubSeq(field, b + 1, Len(field))
    IN  IF (b <= Len(field) /\ Len(conversion) # 1) THEN Raise("ValueError")
        ELSE ConvertAndFormat(Formatter_get_field(SubSeq(field, 1, b - 1), kwargs),
                              conversion)

\* Formatter.vformat from position i of the format string: literal text,
\* the escapes "{{" and "}}", and replacement fields without a format spec.
VFormat(format_string, i, kwargs) ==
    IF i > Len(format_string) THEN Return(<<>>)
    ELSE LET c == format_string[i]
             doubled == i < Len(format_string) /\ format_string[i + 1] = c
             e == Find(format_string, {"{", "}"}, i + 1)
             Then(head, next) ==
                 IF head.raised # "none" THEN head
                 ELSE LET rest == VFormat(format_string, next, kwargs)
                      IN  IF rest.raised # "none" THEN rest
                          ELSE Return(head.value \o rest.value)
         IN  IF c \notin {"{", "}"} THEN Then(Return(<<c>>), i + 1)
             ELSE IF doubled THEN Then(Return(<<c>>), i + 2)
             ELSE IF c = "}" \/ e > Len(format_string) \/ format_string[e] = "{"
             THEN Raise("ValueError")
             ELSE Then(FormatField(SubSeq(format_string, i + 1, e - 1), kwargs), e + 1)

\* ---------------------------------------------------------------- resolver

\* The children of a container, in iteration order.
Children(node) ==
    CASE node.kind = "dict" -> [i \in 1..Len(node.items) |-> node.items[i].v]
      [] node.kind = "list" -> node.elems
      [] OTHER -> <<>>

\* The node reached from root through the child positions loc.
RECURSIVE NodeAt(_, _)
NodeAt(root, loc) ==
    IF loc = <<>> THEN root ELSE NodeAt(Children(root)[loc[1]], Tail(loc))

\* data[key] = value for the child at position i.
SetChild(node, i, value) ==
    IF node.kind = "dict" THEN PyDict([node.items EXCEPT ![i].v = value])
    ELSE PyList([node.elems EXCEPT ![i] = value])

\* root after the assignment that replaces the node at loc by value.
RECURSIVE ReplaceAt(_, _, _)
ReplaceAt(root, loc, value) ==
    IF loc = <<>> THEN value
    ELSE SetChild(root, loc[1],
                  ReplaceAt(Children(root)[loc[1]], Tail(loc), value))

\* The outcome of a resolve: what it raised, what it returned, and the
\* tree of self as the call left it.
Resolved(raised, value, root) == [raised |-> raised, value |-> value, root |-> root]

RECURSIVE ResolveAt(_, _)
RECURSIVE ResolveChildren(_, _, _)
RECURSIVE AssignChild(_, _, _)

\* data[key] = r for the outcome r of resolving child i, then the rest of
\* the loop; an exception ends it.
AssignChild(r, loc, i) ==
    IF r.raised # "none" THEN r
    ELSE ResolveChildren(ReplaceAt(r.root, Append(loc, i), r.value), loc, i + 1)

\* The loops of resolve_extended_arguments over the children of the
\* container at loc, from child i on: data[key] = resolve(node).
ResolveChildren(root, loc, i) ==
    IF i > Len(Children(NodeAt(root, loc)))
    THEN Resolved("none", NodeAt(root, loc), root)
    ELSE AssignChild(ResolveAt(root, Append(loc, i)), loc, i)

\* return data.__get__(root=self), r the outcome of the __get__.
ReturnGet(r, root) ==
    IF r.raised = "none" THEN Resolved("none", PyStr(r.value), root)
    ELSE Resolved(r.raised, NoneV, root)

\* A resolve that descends into dicts only.
ResolveAt_DictsOnly(root, loc) ==
    LET data == NodeAt(root, loc)
    IN  IF data.kind = "ExtendedArgument"
        THEN ReturnGet(ExtendedArgument_get(data, root), root)
        ELSE IF data.kind = "dict" THEN ResolveChildren(root, loc, 1)
        ELSE Resolved("none", data, root)

\* self.resolve_extended_arguments(data) for the data at loc in self.
ResolveAt(root, loc) ==
    LET data == NodeAt(root, loc)
    IN  IF data.kind = "ExtendedArgument"
        THEN ReturnGet(ExtendedArgument_get(data, root), root)
        ELSE IF data.kind \in {"dict", "list"} THEN ResolveChildren(root, loc, 1)
        ELSE Resolved("none", data, root)

\* config.resolve_extended_arguments(config)
resolve_extended_arguments(self) == ResolveAt(self, <<>>)

\* -------------------------------------------------------------------- YAML

\* Serialized text is held as the nodes it denotes.
ScalarNode(tag, value) == [node |-> "scalar", tag |-> tag, value |-> value]

SequenceNode(elems) == [node |-> "sequence", elems |-> elems]

\* pairs is a sequence of <<key node, value node>>.
MappingNode(pairs) == [node |-> "mapping", pairs |-> pairs]

\* Characters in code point order.
CodePoints ==
    <<"\"", "'", ",", "-", ".">> \o Digits \o <<":">> \o UpperCase
    \o <<"[", "]", "_">> \o LowerCase \o <<"{", "}">>

Ord(c) == CHOOSE i \in 1..Len(CodePoints) : CodePoints[i] = c

\* s < t for two strs.
RECURSIVE StrLess(_, _)
StrLess(s, t) ==
    IF t = <<>> THEN FALSE
    ELSE IF s = <<>> THEN TRUE
    ELSE IF s[1] # t[1] THEN Ord(s[1]) < Ord(t[1])
    ELSE StrLess(Tail(s), Tail(t))

KeyLess(j, k) == IF j.kind = "int" THEN j.n < k.n ELSE StrLess(j.s, k.s)

\* sorted(mapping) for items whose keys are all strs or all ints.
RECURSIVE SortedItems(_)
SortedItems(items) ==
    IF items = <<>> THEN <<>>
    ELSE LET m == CHOOSE i \in 1..Len(items) :
                      \A j \in 1..Len(items) : ~KeyLess(items[j].k, items[i].k)
         IN  <<items[m]>> \o SortedItems(SubSeq(items, 1, m - 1)
                                         \o SubSeq(items, m + 1, Len(items)))

\* represent_mapping with sort_keys left at its default: the items are
\* sorted unless the keys do not compare.
MappingOrder(items) ==
    IF \/ \A i \in 1..Len(items) : items[i].k.kind = "str"
       \/ \A i \in 1..Len(items) : items[i].k.kind = "int"
    THEN SortedItems(items)
    ELSE items

\* The types ConfigYamlDumper has a representer for: those of SafeDumper
\* and the two it adds.  Representers are looked up by the exact type.
Representers == {"None", "str", "int", "list", "dict", "Timestamp", "Timedelta"}

\* represent_data for an object of the given type.
RECURSIVE represent_data(_, _)
represent_data(type, data) ==
    CASE type \notin Representers -> Raise("RepresenterError")
      [] type = "None" -> Return(ScalarNode("null", <<"n", "u", "l", "l">>))
      [] type = "str" -> Return(ScalarNode("str", data.s))
      [] type = "int" -> Return(ScalarNode("int", IntToStr(data.n)))
      [] type = "Timestamp" -> Return(ScalarNode("!Timestamp", IntToStr(data.t)))
      [] type = "Timedelta" -> Return(ScalarNode("!Timedelta", IntToStr(data.t)))
      [] type = "list" ->
            LET r == Gather([i \in 1..Len(data.elems) |->
                                represent_data(data.elems[i].kind, data.elems[i])])
            IN  IF r.raised # "none" THEN r ELSE Return(SequenceNode(r.value))
      [] type = "dict" ->
            LET items == MappingOrder(data.items)
                r == Gather([i \in 1..(2 * Len(items)) |->
                                IF i % 2 = 1
                                THEN represent_data(items[(i + 1) \div 2].k.kind,
                                                    items[(i + 1) \div 2].k)
                                ELSE represent_data(items[i \div 2].v.kind,
                                                    items[i \div 2].v)])
            IN  IF r.raised # "none" THEN r
                ELSE Return(MappingNode([i \in 1..Len(items) |->
                                            <<r.value[2 * i - 1], r.value[2 * i]>>]))

\* Configuration.as_yaml: yaml.dump(self, ...) represents self, an object
\* of type Configuration, and emits the node only once it is complete.
as_yaml(self) == represent_data("Configuration", self)

\* The constructors of ConfigYamlLoader, by tag.
RECURSIVE construct_object(_)
RECURSIVE construct_mapping(_, _, _)

construct_mapping(pairs, i, mapping) ==
    IF i > Len(pairs) THEN Return(mapping)
    ELSE LET k == construct_object(pairs[i][1])
             v == construct_object(pairs[i][2])
         IN  IF k.raised # "none" THEN k
             ELSE IF k.value.kind \in {"dict", "list"} THEN Raise("ConstructorError")
             ELSE IF v.raised # "none" THEN v
             ELSE construct_mapping(pairs, i + 1,
                                    SetItem(mapping, k.value, v.value).value)

construct_object(node) ==
    CASE node.node = "mapping" -> construct_mapping(node.pairs, 1, PyDict(<<>>))
      [] node.node = "sequence" ->
            LET r == Gather([i \in 1..Len(node.elems) |->
                                construct_object(node.elems[i])])
            IN  IF r.raised # "none" THEN r ELSE Return(PyList(r.value))
      [] node.node = "scalar" ->
            CASE node.tag = "null" -> Return(NoneV)
              [] node.tag = "str" -> Return(PyStr(node.value))
              [] node.tag = "int" -> Return(PyInt(ParseInt(node.value)))
              [] node.tag = "!Timestamp" -> Return(Timestamp(ParseInt(node.value)))
              [] node.tag = "!Timedelta" -> Return(Timedelta(ParseInt(node.value)))
              [] node.tag = "!r" -> Return(ExtendedArgument(node.value))
              [] OTHER -> Raise("ConstructorError")

\* dict(pairs) from pair i on: each pair is a list or str of two elements.
RECURSIVE DictOfPairs(_, _, _)
DictOfPairs(pairs, i, mapping) ==
    IF i > Len(pairs) THEN Return(mapping)
    ELSE IF pairs[i].kind \notin {"list", "str"} THEN Raise("TypeError")
    ELSE IF Len(Elements(pairs[i])) # 2 THEN Raise("ValueError")
    ELSE IF Elements(pairs[i])[1].kind \in {"dict", "list"} THEN Raise("TypeError")
    ELSE DictOfPairs(pairs, i + 1,
                     SetItem(mapping, Elements(pairs[i])[1],
                             Elements(pairs[i])[2]).value)

\* Configuration.__init__(loaded): dict(loaded) takes a mapping or an
\* iterable of pairs.
Configuration(loaded) ==
    CASE loaded.kind = "dict" -> Return(loaded)
      [] loaded.kind \in {"list", "str"} ->
            DictOfPairs(Elements(loaded), 1, PyDict(<<>>))
      [] OTHER -> Raise("TypeError")

\* Configuration.from_yaml: the loaded object becomes a Configuration,
\* which is resolved and returned.
ResolveLoaded(c) ==
    IF c.raised # "none" THEN Resolved(c.raised, NoneV, NoneV)
    ELSE resolve_extended_arguments(c.value)

ConfigurationOf(loaded) ==
    IF loaded.raised # "none" THEN loaded ELSE Configuration(loaded.value)

from_yaml(input_stream) ==
    ResolveLoaded(ConfigurationOf(construct_object(input_stream)))

\* ------------------------------------------------------------- operations

\* Keys of the documents.
A == PyStr(<<"a">>)
B == PyStr(<<"b">>)
C == PyStr(<<"c">>)

\* !r templates of the documents.
RefA == ExtendedArgument(<<"{", "a", "}">>)
RefB == ExtendedArgument(<<"{", "b", "}">>)
RefASuffix ==
    ExtendedArgument(<<"{", "a", "}", "-", "s", "u", "f", "f", "i", "x">>)
RefCx == ExtendedArgument(<<"{", "c", "}", "x">>)
RefHi == ExtendedArgument(<<"h", "i">>)
RefMissing ==
    ExtendedArgument(<<"{", "m", "i", "s", "s", "i", "n", "g", ".",
                       "p", "a", "t", "h", "}">>)
RefNested == ExtendedArgument(<<"{", "b", ".", "c", "}", "/", "{", "a", "[", "1", "]", "}">>)
RefList == ExtendedArgument(<<"{", "a", "!", "d", "}">>)
RefInto == ExtendedArgument(<<"{", "a", ".", "c", "}">>)

\* Documents a Configuration starts from.
InitConfigs ==
    { PyDict(<<>>),
      \* a list of a map and scalars, a nested map, a str
      PyDict(<< Item(A, PyList(<<PyDict(<<Item(C, PyInt(1))>>), PyInt(2), PyInt(3)>>)),
                Item(B, PyDict(<<Item(C, PyInt(1))>>)),
                Item(PyStr(<<"s">>), PyStr(<<"h", "i">>)) >>),
      \* a reference to a value visited before it
      PyDict(<<Item(A, PyInt(1)), Item(B, RefASuffix)>>),
      \* references to later references, without and with a placeholder
      PyDict(<<Item(A, RefB), Item(B, RefHi)>>),
      PyDict(<<Item(A, RefB), Item(B, RefCx), Item(C, PyInt(1))>>),
      \* a reference that resolves before one that does not
      PyDict(<<Item(A, PyInt(1)), Item(B, RefA), Item(C, RefMissing)>>),
      PyDict(<<Item(B, RefMissing)>>),
      \* references nested in lists and maps, typed values, keys out of order
      PyDict(<< Item(B, PyDict(<<Item(C, Timestamp(7))>>)),
                Item(A, PyList(<<RefB, PyInt(2),
                                 PyDict(<<Item(C, PyList(<<RefNested>>))>>)>>)) >>),
      \* the d conversion, and a placeholder that indexes a scalar
      PyDict(<<Item(A, PyList(<<PyInt(1), PyInt(2)>>)), Item(B, RefList)>>),
      PyDict(<<Item(A, PyInt(1)), Item(B, RefInto)>>) }

\* Paths handed to __call__ and set.
Paths ==
    { <<"a">>,
      <<"b", ".", "c">>,
      <<"a", ".", "c">>,
      <<"a", "[", "-", "1", "]">>,
      <<"a", "[", "2", "]">>,
      <<"a", "[", "-", "1", "]", ".">>,
      <<"a", "[", "5", "]", ".">>,
      <<"a", "[", "0", "]", ".", "c">>,
      <<"a", "[", "0", "]", "[", "1", "]">>,
      <<"b", "[", "0", "]", ".", "c">>,
      <<"s", "[", "0", "]", ".">>,
      <<"x", ".", "y", ".", "z">>,
      <<"[", "0", "]", ".">>,
      <<"[", "]">> }

\* Values handed to set.
SetValues == { PyInt(5), RefA }

\* Defaults handed to __call__: none (the sentinel) or a value.
Defaults == { NotImplementedV, PyInt(0) }

\* Texts handed to from_yaml.
Texts ==
    { MappingNode(<< <<ScalarNode("str", <<"a">>), ScalarNode("int", <<"1">>)>>,
                     <<ScalarNode("str", <<"b">>),
                       ScalarNode("!r", RefASuffix.value_pattern)>> >>),
      MappingNode(<< <<ScalarNode("str", <<"b">>),
                       ScalarNode("!r", RefMissing.value_pattern)>> >>),
      MappingNode(<< <<ScalarNode("str", <<"a">>), ScalarNode("int", <<"1">>)>>,
                     <<ScalarNode("str", <<"b">>), ScalarNode("!r", RefA.value_pattern)>>,
                     <<ScalarNode("str", <<"c">>),
                       ScalarNode("!r", RefMissing.value_pattern)>> >>),
      MappingNode(<< <<ScalarNode("str", <<"b">>),
                       SequenceNode(<<ScalarNode("!Timestamp", <<"7">>),
                                      ScalarNode("!NotRegistered", <<"7">>)>>)>> >>),
      SequenceNode(<<ScalarNode("int", <<"1">>)>>) }

\* The destinations of save_as_yaml.
Filenames == { PyStr(<<"o">>) }

\* What the destination holds before any save.
OldText == <<ScalarNode("str", <<"o", "l", "d">>)>>

NoPath == <<>>

\* The state an operation started from.
Pre == [config |-> config, source_filename |-> source_filename, file |-> file]

Init ==
    /\ config \in InitConfigs
    /\ source_filename \in {NoneV, PyStr(<<"i">>)}
    /\ file = OldText
    /\ nsets = 0
    /\ last = [op |-> "init", path |-> NoPath, arg |-> NoneV, pre |-> Pre,
               out |-> Return(NoneV)]

\* config(path, default)
Get(path, default) ==
    /\ last' = [op |-> "call", path |-> path, arg |-> default, pre |-> Pre,
                out |-> Call(config, path, default)]
    /\ UNCHANGED <<config, source_filename, file, nsets>>

\* config.set(path, value)
SetDone(path, value, r) ==
    /\ config' = r.value
    /\ last' = [op |-> "set", path |-> path, arg |-> value, pre |-> Pre,
                out |-> IF r.raised = "none" THEN Return(NoneV) ELSE Raise(r.raised)]

Set(path, value) ==
    /\ nsets < MaxSets
    /\ nsets' = nsets + 1
    /\ SetDone(path, value, ConfigSet(config, path, value))
    /\ UNCHANGED <<source_filename, file>>

\* config.resolve_extended_arguments(config)
ResolveDone(r) ==
    /\ config' = r.root
    /\ last' = [op |-> "resolve", path |-> NoPath, arg |-> NoneV, pre |-> Pre,
                out |-> [raised |-> r.raised, value |-> r.value]]

Resolve ==
    /\ ResolveDone(resolve_extended_arguments(config))
    /\ UNCHANGED <<source_filename, file, nsets>>

\* config = Configuration.from_yaml(text): on an exception there is no new
\* Configuration and the caller keeps the one it had.
FromYamlDone(text, r) ==
    /\ config' = IF r.raised = "none" THEN r.value ELSE config
    /\ source_filename' = IF r.raised = "none" THEN NoneV ELSE source_filename
    /\ last' = [op |-> "from_yaml", path |-> NoPath, arg |-> text, pre |-> Pre,
                out |-> [raised |-> r.raised, value |-> r.value]]

FromYaml(text) ==
    /\ FromYamlDone(text, from_yaml(text))
    /\ UNCHANGED <<file, nsets>>

\* config.as_yaml()
AsYaml ==
    /\ last' = [op |-> "as_yaml", path |-> NoPath, arg |-> NoneV, pre |-> Pre,
                out |-> as_yaml(config)]
    /\ UNCHANGED <<config, source_filename, file, nsets>>

\* config.save_as_yaml(filename): open(filename, 'w') empties the file,
\* as_yaml writes to it, and the provenance is set after the with block.
SaveDone(filename, r) ==
    /\ file' = IF r.raised = "none" THEN <<r.value>> ELSE <<>>
    /\ source_filename' = IF r.raised = "none" /\ source_filename = NoneV
                          THEN filename ELSE source_filename
    /\ last' = [op |-> "save_as_yaml", path |-> NoPath, arg |-> filename,
                pre |-> Pre,
                out |-> IF r.raised = "none" THEN Return(NoneV) ELSE r]

SaveAsYaml(filename) ==
    /\ SaveDone(filename, as_yaml(config))
    /\ UNCHANGED <<config, nsets>>

Next ==
    \/ \E path \in Paths, default \in Defaults : Get(path, default)
    \/ \E path \in Paths, value \in SetValues : Set(path, value)
    \/ Resolve
    \/ \E text \in Texts : FromYaml(text)
    \/ AsYaml
    \/ \E filename \in Filenames : SaveAsYaml(filename)

Spec == Init /\ [][Next]_vars

\* ------------------------------------------------------------ list_to_str

\* Lists of up to MaxNames elements.
NameLists ==
    UNION { [1..n -> {PyInt(1), PyInt(2)}] : n \in 1..MaxNames }

Patterns == { <<"{", "n", "}">>, <<"\"", "{", "n", "}", "\"">> }

Seps == { <<",", " ">>, <<" ", "&", " ">> }

LastSeps == { NoneV, PyStr(<<" ", "+", " ">>) }

InitFmt ==
    /\ config = PyDict(<<>>)
    /\ source_filename = NoneV
    /\ file = OldText
    /\ nsets = 0
    /\ last = [op |-> "init", path |-> NoPath, arg |-> NoneV, pre |-> Pre,
               out |-> Return(NoneV)]

\* list_to_str(names, pattern, sep, last_sep)
ListToStr(names, pattern, sep, last_sep) ==
    /\ last' = [op |-> "list_to_str", path |-> NoPath,
                arg |-> [names |-> names, pattern |-> pattern, sep |-> sep,
                         last_sep |-> last_sep],
                pre |-> Pre,
                out |-> list_to_str(names, pattern, sep, last_sep)]
    /\ UNCHANGED <<config, source_filename, file, nsets>>

\* '{...!d}'.format(...) on a list
ConvertD(names) ==
    /\ last' = [op |-> "convert_field_d", path |-> NoPath, arg |-> [names |-> names],
                pre |-> Pre,
                out |-> Formatter_convert_field_d(PyList(names))]
    /\ UNCHANGED <<config, source_filename, file, nsets>>

NextFmt ==
    \/ \E names \in NameLists, pattern \in Patterns, sep \in Seps, last_sep \in LastSeps :
          ListToStr(names, pattern, sep, last_sep)
    \/ \E names \in NameLists : ConvertD(names)

SpecFmt == InitFmt /\ [][NextFmt]_vars

\* ------------------------------------------------- vocabulary of the claims

\* The concatenation of a sequence of sequences.
RECURSIVE Flatten(_)
Flatten(ss) == IF ss = <<>> THEN <<>> ELSE ss[1] \o Flatten(Tail(ss))

\* The places of the ExtendedArguments below node, in depth-first order.
RECURSIVE RefLocs(_, _)
RefLocs(node, loc) ==
    IF node.kind = "ExtendedArgument" THEN <<loc>>
    ELSE Flatten([i \in 1..Len(Children(node)) |->
                     RefLocs(Children(node)[i], Append(loc, i))])

NoRefs(root) == RefLocs(root, <<>>) = <<>>

\* Every key of every dict below node is a str.
RECURSIVE StringKeyed(_)
StringKeyed(node) ==
    /\ node.kind = "dict" => \A i \in 1..Len(node.items) : node.items[i].k.kind = "str"
    /\ \A i \in 1..Len(Children(node)) : StringKeyed(Children(node)[i])

\* The segments a path is written with: identifiers, and bracketed signed
\* integers whatever follows the bracket.
RECURSIVE Segments(_, _)
Segments(path, i) ==
    IF i > Len(path) THEN <<>>
    ELSE IF IsIdentStart(path[i])
    THEN << <<SubSeq(path, i, IdentEnd(path, i)), <<>>>> >>
         \o Segments(path, IdentEnd(path, i) + 1)
    ELSE LET d == IF i < Len(path) /\ path[i + 1] = "-" THEN i + 2 ELSE i + 1
             e == DigitsEnd(path, d)
         IN  IF path[i] = "[" /\ e >= d /\ e < Len(path) /\ path[e + 1] = "]"
             THEN << << <<>>, SubSeq(path, i + 1, e)>> >> \o Segments(path, e + 2)
             ELSE Segments(path, i + 1)

\* Walking matches from node, an index segment meets a slot that is not there.
RECURSIVE IndexSlotMissing(_, _, _)
IndexSlotMissing(node, matches, i) ==
    IF i > Len(matches) THEN FALSE
    ELSE IF GetItem(node, KeyOrIndex(matches[i])).raised # "none"
    THEN matches[i][1] = <<>>
    ELSE IndexSlotMissing(GetItem(node, KeyOrIndex(matches[i])).value, matches, i + 1)

\* The replacement fields of a template, left to right.
RECURSIVE Fields(_, _)
Fields(tpl, i) ==
    IF i > Len(tpl) THEN <<>>
    ELSE IF tpl[i] \in {"{", "}"} /\ i < Len(tpl) /\ tpl[i + 1] = tpl[i]
    THEN Fields(tpl, i + 2)
    ELSE IF tpl[i] = "{"
    THEN <<SubSeq(tpl, i + 1, Find(tpl, {"}"}, i) - 1)>>
         \o Fields(tpl, Find(tpl, {"}"}, i) + 1)
    ELSE Fields(tpl, i + 1)

IsName(f) == f # <<>> /\ IsIdentStart(f[1]) /\ \A i \in 1..Len(f) : IsIdentChar(f[i])

\* The text of a scalar.
ScalarText(v) == IF v.kind = "int" THEN IntToStr(v.n) ELSE v.s

\* A template with each field {name} replaced by the text root holds at name.
RECURSIVE Substituted(_, _, _)
Substituted(tpl, i, root) ==
    IF i > Len(tpl) THEN <<>>
    ELSE IF tpl[i] \in {"{", "}"} /\ i < Len(tpl) /\ tpl[i + 1] = tpl[i]
    THEN <<tpl[i]>> \o Substituted(tpl, i + 2, root)
    ELSE IF tpl[i] = "{"
    THEN ScalarText(root.items[KeyPos(root, PyStr(SubSeq(tpl, i + 1,
                                                  Find(tpl, {"}"}, i) - 1)))].v)
         \o Substituted(tpl, Find(tpl, {"}"}, i) + 1, root)
    ELSE <<tpl[i]>> \o Substituted(tpl, i + 1, root)

\* Field f of the ExtendedArgument at loc names a top-level key that comes
\* later in the traversal and holds an ExtendedArgument.
NamesLaterRef(root, loc, f) ==
    /\ loc # <<>>
    /\ IsName(f)
    /\ KeyPos(root, PyStr(f)) > loc[1]
    /\ root.items[KeyPos(root, PyStr(f))].v.kind = "ExtendedArgument"

HasField(tpl) == Fields(tpl, 1) # <<>>

\* Every field of the template at loc names a top-level key, outside the
\* item loc is in, at which root holds a scalar.
PlainTemplate(root, loc, tpl) ==
    /\ loc # <<>>
    /\ \A k \in 1..Len(Fields(tpl, 1)) :
          LET f == Fields(tpl, 1)[k]
          IN  /\ IsName(f)
              /\ KeyPos(root, PyStr(f)) \notin {0, loc[1]}
              /\ root.items[KeyPos(root, PyStr(f))].v.kind \in {"int", "str"}

\* ------------------------------------------------------------------ claims

\* C1: on a tree of maps, sequences and scalars every lookup failure of get
\* (missing key, index out of bounds, an index on a Map, a key on a Sequence
\* or a scalar) returns the default when one was supplied and else fails
\* with the path-not-found error (ValueError); no other error escapes.
C1_GetFailsOnlyWithPathNotFound ==
    (last.op = "call" /\ NoRefs(config)) =>
        /\ last.out.raised \in {"none", "ValueError"}
        /\ last.arg # NotImplementedV => last.out.raised = "none"

\* C2: after a set(path, value) that succeeds, get(path) returns exactly
\* value.
C2_GetAfterSet ==
    (last.op = "set" /\ last.out.raised = "none") =>
        Call(config, last.path, NotImplementedV) = Return(last.arg)

\* C2 witness: a set through a negative index has succeeded.
C2_Witness ==
    /\ last.op = "set"
    /\ last.out.raised = "none"
    /\ \E i \in 1..Len(FindAll(last.path, 1)) :
          /\ FindAll(last.path, 1)[i][1] = <<>>
          /\ ParseInt(FindAll(last.path, 1)[i][2]) < 0
    /\ config # last.pre.config

\* C3: set never inserts an integer key into a Map (all keys stay strings),
\* and when an index segment addresses a slot that does not exist set fails
\* and inserts nothing.
C3_IndexNeverCreates ==
    last.op = "set" =>
        /\ StringKeyed(config)
        /\ IndexSlotMissing(last.pre.config, FindAll(last.path, 1), 1) =>
              (last.out.raised # "none" /\ config = last.pre.config)

\* C4: every bracketed signed integer of a path is evaluated as a sequence
\* index wherever it stands (before a ".", at the end, before another
\* bracket), so get "a[-1]" on a sequence a returns its last element.
C4_BracketIsAlwaysIndex ==
    /\ last.op = "call" =>
          last.out = CallWalk(last.pre.config, Segments(last.path, 1), 1, last.arg)
    /\ (last.op = "set" /\ Segments(last.path, 1) # <<>>) =>
          config = SetWalk(last.pre.config, Segments(last.path, 1), 1, last.arg).value
    /\ ( /\ last.op = "call"
         /\ last.path = <<"a", "[", "-", "1", "]">>
         /\ GetItem(config, A).raised = "none"
         /\ GetItem(config, A).value.kind = "list"
         /\ GetItem(config, A).value.elems # <<>> ) =>
          last.out = Return(GetItem(config, A).value.elems[
                                Len(GetItem(config, A).value.elems)])

\* Some ExtendedArgument of root names a later ExtendedArgument for which
\* Later holds.
SomeLaterRef(root, Later(_)) ==
    \E k \in 1..Len(RefLocs(root, <<>>)) :
       LET loc == RefLocs(root, <<>>)[k]
           tpl == NodeAt(root, loc).value_pattern
       IN  \E n \in 1..Len(Fields(tpl, 1)) :
              /\ NamesLaterRef(root, loc, Fields(tpl, 1)[n])
              /\ Later(root.items[KeyPos(root, PyStr(Fields(tpl, 1)[n]))].v)

\* The first field of the first ExtendedArgument of root names a later
\* ExtendedArgument for which Later holds.
FirstLaterRef(root, Later(_)) ==
    /\ RefLocs(root, <<>>) # <<>>
    /\ LET loc == RefLocs(root, <<>>)[1]
           tpl == NodeAt(root, loc).value_pattern
       IN  /\ HasField(tpl)
           /\ NamesLaterRef(root, loc, Fields(tpl, 1)[1])
           /\ Later(root.items[KeyPos(root, PyStr(Fields(tpl, 1)[1]))].v)

AnyTemplate(ref) == TRUE

TemplateWithField(ref) == HasField(ref.value_pattern)

\* Every template of pre whose fields name scalars of post holds in post its
\* text with each field replaced by the text post holds at the name.
ResolvedAgainstFinal(pre, post) ==
    \A k \in 1..Len(RefLocs(pre, <<>>)) :
       LET loc == RefLocs(pre, <<>>)[k]
           tpl == NodeAt(pre, loc).value_pattern
       IN  PlainTemplate(post, loc, tpl) =>
              NodeAt(post, loc) = PyStr(Substituted(tpl, 1, post))

C6_AllOrNothing ==
    /\ (last.op = "resolve" /\ last.out.raised # "none") => config = last.pre.config
    /\ (last.op = "from_yaml" /\ last.out.raised # "none") =>
          (last.out.value = NoneV /\ config = last.pre.config)

\* C7: after a resolve or load that succeeds no Reference is reachable from
\* the root at any depth, and resolving again changes nothing.
C7_ResolvedAndIdempotent ==
    (last.op \in {"resolve", "from_yaml"} /\ last.out.raised = "none") =>
        /\ NoRefs(config)
        /\ resolve_extended_arguments(config) = Resolved("none", config, config)

\* C7 witness: a resolve has succeeded on a tree with a Reference nested
\* three containers deep.
C7_Witness ==
    /\ last.op = "resolve"
    /\ last.out.raised = "none"
    /\ \E k \in 1..Len(RefLocs(last.pre.config, <<>>)) :
          Len(RefLocs(last.pre.config, <<>>)[k]) >= 3

\* C8: serializing a Document without unresolved references never fails,
\* and loading the text gives back an equal Document, key order included.
C8_RoundTrip ==
    (last.op = "as_yaml" /\ NoRefs(config)) =>
        /\ last.out.raised = "none"
        /\ from_yaml(last.out.value).raised = "none"
        /\ from_yaml(last.out.value).value = config

\* C9: a save whose serialization fails leaves the destination with its
\* previous content and the provenance unchanged.
C9_FailedSaveHasNoEffect ==
    (last.op = "save_as_yaml" /\ last.out.raised # "none") =>
        /\ file = last.pre.file
        /\ source_filename = last.pre.source_filename

\* The n elements formatted by pattern, in order, joined by n - 1
\* separators: sep, and last_sep before the last element.
JoinedNames(names, pattern, sep, last_sep) ==
    LET parts == [i \in 1..Len(names) |->
                     Substituted(pattern, 1, PyDict(<<Item(PyStr(<<"n">>), names[i])>>))]
    IN  IF Len(names) = 1 THEN parts[1]
        ELSE Join(sep, SubSeq(parts, 1, Len(names) - 1)) \o last_sep
             \o parts[Len(names)]

\* C10: list_to_str of a non-empty list is its formatted elements in order
\* joined by n - 1 separators, last_sep (default sep) before the last; one
\* element yields just that element; the d conversion does so with the
\* pattern "{n}" in double quotes.
C10_ListToStr ==
    /\ last.op = "list_to_str" =>
          last.out = Return(JoinedNames(last.arg.names, last.arg.pattern, last.arg.sep,
                                        IF last.arg.last_sep = NoneV THEN last.arg.sep
                                        ELSE last.arg.last_sep.s))
    /\ last.op = "convert_field_d" =>
          last.out = Return(JoinedNames(last.arg.names, <<"\"", "{", "n", "}", "\"">>,
                                        <<",", " ">>, <<",", " ">>))

=============================================================================
